---- MODULE Spec2Model ----
(***************************************************************************)
(* Supervision of the Kolibri server process by KolibriApp                 *)
(* (src/src/kolibri_app/application.py) and the server process entry point *)
(* (src/src/kolibri_app/_server_process.py).                               *)
(*                                                                         *)
(* The GUI thread runs one handler at a time: a timer tick                 *)
(* (check_server_status), a call posted with wx.CallAfter (load_kolibri),  *)
(* start_server or shutdown.  shutdown blocks the GUI thread in            *)
(* Process.join, so it is split at its two joins: while it waits, only     *)
(* the server processes take steps.  Server processes run concurrently     *)
(* with the GUI thread and talk to it through server_ready_queue and       *)
(* their exit status only.                                                 *)
(*                                                                         *)
(* A tick runs only when the timer exists, and only once the calls posted   *)
(* by the tick before it have run: the event loop runs posted calls before *)
(* it dispatches the next timer event, and a tick that posts a call has    *)
(* just restarted its timer.  start_server and shutdown are called from    *)
(* outside this code and may come at any point between two handlers, also  *)
(* between a tick and the call it posted.                                  *)
(*                                                                         *)
(* Spec, FairSpec and FairTickSpec follow the app, with its server         *)
(* processes seen from outside (started, serving, exited).  SpecMalformed  *)
(* is Spec from a start where the queue holds one object that is no        *)
(* readiness message.  SpecServer follows one server process through       *)
(* main(), step by step, with the signals it may receive; the app's        *)
(* variables stay at rest there, as the variable server does in the        *)
(* others.                                                                 *)
(*                                                                         *)
(* Strings are sequences of one-character strings, so that formatting      *)
(* ("READY:<port>", "http://localhost:<port>") and parsing                 *)
(* (startswith, split, strip, int) are computed, not assumed.              *)
(***************************************************************************)
EXTENDS Integers, Sequences, FiniteSets, TLC

\* Number of multiprocessing.Process objects the app may create in a run.
MaxStarts == 2

\* ------------------------------------------------------------------------
\* Program constants (application.py:24-26)
SERVER_STARTUP_CHECK_INTERVAL == 100

SERVER_RUNNING_CHECK_INTERVAL == 1000

\* None for self.kolibri_server_process (application.py:50); processes are
\* numbered from 1 in the order the app creates them.
NoProcess == 0

\* None for self.server_monitor_timer (application.py:53); a timer that
\* exists is running, and is represented by its interval.
NoTimer == 0

\* None for self.kolibri_origin (application.py:52): not a character string.
None == <<"<None>">>

\* Process.exitcode of a process that has not exited (or never started).
NoExitCode == <<>>

\* Actual ports the server may report with its SERVING event.
Ports == {8080, 41237}

\* Exit statuses of a server process: sys.exit(0) and sys.exit(1)
\* (_server_process.py:83-216).  The app only passes the status on, so the
\* status of a killed process (-9) behaves as any of these.
ExitCodes == {0, 1}

Pids == 1..MaxStarts

\* ------------------------------------------------------------------------
\* Strings

Digits == <<"0", "1", "2", "3", "4", "5", "6", "7", "8", "9">>

IsDigit(c) == \E i \in 1..10 : Digits[i] = c

DigitVal(c) == (CHOOSE i \in 1..10 : Digits[i] = c) - 1

IsSpace(c) == c \in {" ", "\t", "\n", "\r"}

RECURSIVE FormatNat(_)
\* str(n) for n >= 0
FormatNat(n) ==
    IF n < 10 THEN <<Digits[n + 1]>>
    ELSE FormatNat(n \div 10) \o <<Digits[(n % 10) + 1]>>

\* str(n), the f-string conversion of an int
FormatInt(n) == IF n < 0 THEN <<"-">> \o FormatNat(-n) ELSE FormatNat(n)

\* s.startswith(prefix)
StartsWith(s, prefix) ==
    /\ Len(s) >= Len(prefix)
    /\ SubSeq(s, 1, Len(prefix)) = prefix

\* Positions of sep in s
SepPositions(s, sep) == {i \in 1..Len(s) : s[i] = sep}

\* s.split(sep)[1] as a set: empty when s holds no sep (IndexError),
\* else the one string between the first sep and the next (or the end).
SplitSecond(s, sep) ==
    LET ps == SepPositions(s, sep) IN
    IF ps = {} THEN {}
    ELSE LET first == CHOOSE i \in ps : \A j \in ps : i <= j
             rest == {i \in ps : i > first}
             stop == IF rest = {} THEN Len(s) + 1
                     ELSE CHOOSE i \in rest : \A j \in rest : i <= j
         IN {SubSeq(s, first + 1, stop - 1)}

\* s.strip()
Strip(s) ==
    LET keep == {i \in 1..Len(s) : ~IsSpace(s[i])} IN
    IF keep = {} THEN <<>>
    ELSE LET lo == CHOOSE i \in keep : \A j \in keep : i <= j
             hi == CHOOSE i \in keep : \A j \in keep : i >= j
         IN SubSeq(s, lo, hi)

RECURSIVE DigitsValue(_)
DigitsValue(ds) ==
    IF ds = <<>> THEN 0
    ELSE DigitsValue(SubSeq(ds, 1, Len(ds) - 1)) * 10 + DigitVal(ds[Len(ds)])

\* int(s) as a set: empty on ValueError, else the one value.  Python's int
\* strips whitespace, takes an optional sign and decimal digits, with single
\* underscores allowed between digits.
ParseInt(s) ==
    LET t == Strip(s)
        signed == t # <<>> /\ t[1] \in {"+", "-"}
        body == IF signed THEN SubSeq(t, 2, Len(t)) ELSE t
        wellformed ==
            /\ body # <<>>
            /\ \A i \in 1..Len(body) : IsDigit(body[i]) \/ body[i] = "_"
            /\ IsDigit(body[1]) /\ IsDigit(body[Len(body)])
            /\ \A i \in 1..(Len(body) - 1) : ~(body[i] = "_" /\ body[i + 1] = "_")
        ds == SelectSeq(body, IsDigit)
    IN IF ~wellformed THEN {}
       ELSE IF signed /\ t[1] = "-" THEN {-DigitsValue(ds)}
       ELSE {DigitsValue(ds)}

READY_PREFIX == <<"R", "E", "A", "D", "Y", ":">>

HTTP_LOCALHOST ==
    <<"h", "t", "t", "p", ":", "/", "/",
      "l", "o", "c", "a", "l", "h", "o", "s", "t", ":">>

\* The message on_serving_callback puts on the queue: f"READY:{actual_port}"
ReadyMessage(actual_port) == READY_PREFIX \o FormatInt(actual_port)

\* isinstance(message, str): None is the one object of the model that is
\* not a string
IsStr(message) == message # None

\* A reading that takes every READY message for a valid one, with port 0
\* when the port does not parse
ParsePort_lenient(message) ==
    IF StartsWith(message, READY_PREFIX)
    THEN LET ports == UNION {ParseInt(f) : f \in SplitSecond(message, ":")}
         IN IF ports = {} THEN {0} ELSE ports
    ELSE {}

\* The port check_server_status reads from a queue message, as a set: empty
\* when the message is not a READY message or its port does not parse.
ParsePort(message) ==
    IF message # <<>> /\ IsStr(message) /\ StartsWith(message, READY_PREFIX)
    THEN UNION {ParseInt(f) : f \in SplitSecond(message, ":")}
    ELSE {}

\* Queue objects that are no readiness message: None, the empty string, a
\* message of another kind, READY without its colon, READY with an empty
\* port, READY with a port that is no integer.
MalformedMessages ==
    { None,
      <<>>,
      <<"P", "I", "N", "G", ":", "1">>,
      <<"R", "E", "A", "D", "Y">>,
      READY_PREFIX,
      READY_PREFIX \o <<"a", "b">> }

\* load_kolibri: current_origin = f"http://localhost:{listen_port}"
OriginOf(listen_port) == HTTP_LOCALHOST \o FormatInt(listen_port)

\* ------------------------------------------------------------------------
\* State

VARIABLES
    kolibri_server_process, \* self.kolibri_server_process: NoProcess or a pid
    server_ready_queue,     \* self.server_ready_queue: the one Queue of OnInit
    kolibri_origin,         \* self.kolibri_origin: None or the origin string
    server_monitor_timer,   \* self.server_monitor_timer: NoTimer or its interval
    pending_calls,          \* calls posted with wx.CallAfter(self.load_kolibri, port)
    shutdown_pc,            \* where shutdown() stands: idle, or blocked in a join
    workers,                \* the Process objects created so far, by pid
    nspawned,               \* how many Process objects were created
    reports,                \* what the app has told the user and the log, in order
    server                  \* one server process followed through main(), step by step

\* The app's own fields and what it sees of its processes
appvars ==
    <<kolibri_server_process, server_ready_queue, kolibri_origin,
      server_monitor_timer, pending_calls, shutdown_pc, workers, nspawned,
      reports>>

vars ==
    <<kolibri_server_process, server_ready_queue, kolibri_origin,
      server_monitor_timer, pending_calls, shutdown_pc, workers, nspawned,
      reports, server>>

\* The app is followed with its processes seen from outside only: no main()
\* is followed step by step.
NoServer == [pc |-> "none"]

\* A Process object: st is "none" (not created), "unstarted" (created, start()
\* raised), "startup" (main() before kolibri_server.run()), "running" (in
\* run(), not yet serving), "serving" (SERVING was published) or "exited".
\* published: the ports it put on the queue.  term_sent, kill_sent: the
\* terminate() and kill() calls made on it.  cleared: how the app dropped
\* its reference ("" while it holds it).
NewWorker ==
    [st |-> "none", exitcode |-> NoExitCode, published |-> <<>>,
     term_sent |-> 0, kill_sent |-> 0, cleared |-> ""]

\* Process.is_alive()
IsAlive(p) == workers[p].st \in {"startup", "running", "serving"}

NoMsg == [sender |-> NoProcess, drained_for |-> NoProcess, alive_at_drain |-> FALSE]

Report(kind, pid, val, msg) == [kind |-> kind, pid |-> pid, val |-> val, msg |-> msg]

Init ==
    /\ kolibri_server_process = NoProcess
    /\ server_ready_queue = <<>>
    /\ kolibri_origin = None
    /\ server_monitor_timer = NoTimer
    /\ pending_calls = <<>>
    /\ shutdown_pc = "idle"
    /\ workers = [p \in Pids |-> NewWorker]
    /\ nspawned = 0
    /\ reports = <<>>
    /\ server = NoServer

\* ------------------------------------------------------------------------
\* KolibriApp.start_server

\* A start_server that does not look whether the held process is alive
AlreadyRunning_unchecked == FALSE

\* "if self.kolibri_server_process and self.kolibri_server_process.is_alive()"
AlreadyRunning ==
    kolibri_server_process # NoProcess /\ IsAlive(kolibri_server_process)

\* start_server_monitoring: a new wx.Timer started at the startup interval
TimerAfterStart == SERVER_STARTUP_CHECK_INTERVAL

\* The whole of start_server.  Process.start() either starts the process
\* (started) or raises, which the except clause reports with a message box;
\* the reference to the new Process object is assigned before start().
start_server ==
    /\ shutdown_pc = "idle"
    /\ UNCHANGED server
    /\ IF AlreadyRunning
       THEN UNCHANGED vars
       ELSE /\ nspawned < MaxStarts
            /\ \E started \in BOOLEAN :
                LET new == nspawned + 1
                    old == kolibri_server_process
                    dropped == IF old = NoProcess THEN workers
                               ELSE [workers EXCEPT ![old].cleared = "replaced"]
                IN /\ nspawned' = new
                   /\ kolibri_server_process' = new
                   /\ workers' = [dropped EXCEPT ![new].st =
                                     IF started THEN "startup" ELSE "unstarted"]
                   /\ server_monitor_timer' =
                         IF started THEN TimerAfterStart ELSE server_monitor_timer
                   /\ reports' =
                         IF started THEN reports
                         ELSE Append(reports, Report("start_error", new, NoExitCode, NoMsg))
                   /\ UNCHANGED <<server_ready_queue, kolibri_origin,
                                  pending_calls, shutdown_pc>>

\* ------------------------------------------------------------------------
\* KolibriApp.check_server_status (the timer's handler)
\* The message box of a startup failure is posted with wx.CallAfter too; it
\* touches no field of the app and is entered in reports when it is posted.

\* "if self.kolibri_origin is None": only then is the queue read
\* A tick that reads the queue whether or not an origin is cached
DrainsQueue_always == TRUE

DrainsQueue == kolibri_origin = None

\* The timer is stopped and restarted at the running interval
TimerAfterReady == SERVER_RUNNING_CHECK_INTERVAL

\* "if self.kolibri_origin is None" in the dead-process branch
FailedBeforeReady == kolibri_origin = None

\* A dead-process branch that leaves the timer as it is
TimerAfterDeath_kept == server_monitor_timer

\* "self.server_monitor_timer.Stop(); self.server_monitor_timer = None"
TimerAfterDeath == NoTimer

\* A dead-process branch that does not reset the origin
OriginAfterDeath_kept == kolibri_origin

\* "self.kolibri_origin = None  # Reset origin if server died"
OriginAfterDeath == None

\* A liveness check that is skipped when the queue held something
ProcessDied_quiet_queue ==
    /\ kolibri_server_process # NoProcess
    /\ ~IsAlive(kolibri_server_process)
    /\ server_ready_queue = <<>>

\* A liveness check that takes every process it holds for dead
ProcessDied_any == kolibri_server_process # NoProcess

\* "if self.kolibri_server_process: if not self.kolibri_server_process.is_alive()"
ProcessDied ==
    /\ kolibri_server_process # NoProcess
    /\ ~IsAlive(kolibri_server_process)

\* One timer tick.  get_raises: server_ready_queue.get(block=False) raises
\* something other than queue.Empty, which is logged; nothing is read then.
Tick(get_raises) ==
    /\ shutdown_pc = "idle"
    /\ UNCHANGED server
    /\ server_monitor_timer # NoTimer
    /\ pending_calls = <<>>
    /\ get_raises => DrainsQueue
    /\ LET p == kolibri_server_process
           drained == DrainsQueue /\ ~get_raises /\ server_ready_queue # <<>>
           m == Head(server_ready_queue)
           port == IF drained THEN ParsePort(m.text) ELSE {}
           ready == port # {}
           call == [port |-> CHOOSE x \in port : TRUE,
                    sender |-> m.sender,
                    drained_for |-> p,
                    alive_at_drain |-> (p # NoProcess /\ IsAlive(p))]
           dead == ProcessDied
       IN /\ server_ready_queue' =
                IF drained THEN Tail(server_ready_queue) ELSE server_ready_queue
          /\ pending_calls' =
                IF ready THEN Append(pending_calls, call) ELSE pending_calls
          /\ IF dead
             THEN /\ server_monitor_timer' = TimerAfterDeath
                  /\ reports' = Append(reports,
                        Report(IF FailedBeforeReady THEN "startup_failed"
                               ELSE "unexpected_exit",
                               p, workers[p].exitcode, NoMsg))
                  /\ workers' = [workers EXCEPT ![p].cleared =
                        IF FailedBeforeReady THEN "failed" ELSE "exited"]
                  /\ kolibri_server_process' = NoProcess
                  /\ kolibri_origin' = OriginAfterDeath
             ELSE /\ server_monitor_timer' =
                        IF p = NoProcess THEN NoTimer
                        ELSE IF ready THEN TimerAfterReady
                        ELSE server_monitor_timer
                  /\ UNCHANGED <<reports, workers, kolibri_server_process,
                                 kolibri_origin>>
          /\ UNCHANGED <<shutdown_pc, nspawned>>

\* The tick whose get() returns a message or raises queue.Empty
check_server_status == Tick(FALSE)

\* The tick whose get() raises another exception
check_server_status_queue_error == Tick(TRUE)

\* ------------------------------------------------------------------------
\* KolibriApp.load_kolibri, run by the event loop for a posted call

\* "if self.kolibri_origin == current_origin": the call is ignored
SameOrigin(listen_port) == kolibri_origin = OriginOf(listen_port)

load_kolibri ==
    /\ shutdown_pc = "idle"
    /\ UNCHANGED server
    /\ pending_calls # <<>>
    /\ LET c == Head(pending_calls) IN
       /\ pending_calls' = Tail(pending_calls)
       /\ IF SameOrigin(c.port)
          THEN UNCHANGED <<kolibri_origin, reports>>
          ELSE /\ kolibri_origin' = OriginOf(c.port)
               /\ reports' = Append(reports,
                     Report("origin_ready", kolibri_server_process,
                            OriginOf(c.port),
                            [sender |-> c.sender, drained_for |-> c.drained_for,
                             alive_at_drain |-> c.alive_at_drain]))
    /\ UNCHANGED <<kolibri_server_process, server_ready_queue,
                   server_monitor_timer, shutdown_pc, workers, nspawned>>

\* ------------------------------------------------------------------------
\* KolibriApp.shutdown

\* A first join after which kill() is called whatever the process did
NeedsKill_always == TRUE

\* A shutdown that never escalates to kill()
NeedsKill_never == FALSE

\* "if self.kolibri_server_process.is_alive()" after join(SERVER_SHUTDOWN_TIMEOUT)
NeedsKill == IsAlive(kolibri_server_process)

\* A shutdown that leaves the timer as it is
TimerAfterShutdown_kept == server_monitor_timer

\* "self.server_monitor_timer.Stop(); self.server_monitor_timer = None"
TimerAfterShutdown == NoTimer

\* A shutdown that keeps its reference to the process
ProcessAfterShutdown_kept == kolibri_server_process

\* "self.kolibri_server_process = None" of the finally clause and of the
\* branch for a process that is already dead
ProcessAfterShutdown == NoProcess

\* shutdown up to its first join: the timer is stopped; a live process gets
\* terminate(), a dead one is closed and dropped, no process is a no-op.
shutdown ==
    /\ shutdown_pc = "idle"
    /\ UNCHANGED server
    /\ server_monitor_timer' = TimerAfterShutdown
    /\ LET p == kolibri_server_process IN
       IF p # NoProcess /\ IsAlive(p)
       THEN /\ workers' = [workers EXCEPT ![p].term_sent = @ + 1]
            /\ shutdown_pc' = "join_terminate"
            /\ UNCHANGED kolibri_server_process
       ELSE IF p # NoProcess
       THEN /\ workers' = [workers EXCEPT ![p].cleared = "shutdown"]
            /\ kolibri_server_process' = ProcessAfterShutdown
            /\ UNCHANGED shutdown_pc
       ELSE UNCHANGED <<workers, kolibri_server_process, shutdown_pc>>
    /\ UNCHANGED <<server_ready_queue, kolibri_origin, pending_calls,
                   nspawned, reports>>

\* join(timeout=SERVER_SHUTDOWN_TIMEOUT) returns, the process having exited
\* or the timeout having passed: a live process gets kill() and the second
\* join, an exited one is closed and dropped.
shutdown_after_terminate ==
    /\ shutdown_pc = "join_terminate"
    /\ UNCHANGED server
    /\ LET p == kolibri_server_process IN
       IF NeedsKill
       THEN /\ workers' = [workers EXCEPT ![p].kill_sent = @ + 1]
            /\ shutdown_pc' = "join_kill"
            /\ UNCHANGED kolibri_server_process
       ELSE /\ workers' = [workers EXCEPT ![p].cleared = "shutdown"]
            /\ kolibri_server_process' = ProcessAfterShutdown
            /\ shutdown_pc' = "idle"
    /\ UNCHANGED <<server_ready_queue, kolibri_origin, server_monitor_timer,
                   pending_calls, nspawned, reports>>

\* join(timeout=2) returns, the process killed or still alive; either way
\* the finally clause drops the reference.
shutdown_after_kill ==
    /\ shutdown_pc = "join_kill"
    /\ UNCHANGED server
    /\ workers' = [workers EXCEPT ![kolibri_server_process].cleared = "shutdown"]
    /\ kolibri_server_process' = ProcessAfterShutdown
    /\ shutdown_pc' = "idle"
    /\ UNCHANGED <<server_ready_queue, kolibri_origin, server_monitor_timer,
                   pending_calls, nspawned, reports>>

\* terminate(), the first join, is_alive(), kill() or the second join raises:
\* the except clause logs it and the finally clause drops the reference,
\* whatever the process does.  When terminate() raises, the timer has been
\* stopped and no signal was sent.
shutdown_except ==
    /\ UNCHANGED server
    /\ kolibri_server_process # NoProcess
    /\ shutdown_pc = "idle" => IsAlive(kolibri_server_process)
    /\ server_monitor_timer' = TimerAfterShutdown
    /\ workers' = [workers EXCEPT ![kolibri_server_process].cleared = "shutdown"]
    /\ kolibri_server_process' = ProcessAfterShutdown
    /\ shutdown_pc' = "idle"
    /\ UNCHANGED <<server_ready_queue, kolibri_origin, pending_calls,
                   nspawned, reports>>

\* ------------------------------------------------------------------------
\* The server process: _server_process.main(ready_queue)

\* Plugins enabled, initialize(), migrations, ports resolved, the bus built
\* and subscribed: main reaches kolibri_server.run().
server_main_startup(p) ==
    /\ workers[p].st = "startup"
    /\ UNCHANGED server
    /\ workers' = [workers EXCEPT ![p].st = "running"]
    /\ UNCHANGED <<kolibri_server_process, server_ready_queue, kolibri_origin,
                   server_monitor_timer, pending_calls, shutdown_pc, nspawned,
                   reports>>

\* on_serving_callback(actual_port): the app always passes its queue, so the
\* message goes on the queue.
on_serving_callback(p, actual_port) ==
    /\ workers[p].st = "running"
    /\ UNCHANGED server
    /\ workers' = [workers EXCEPT ![p].st = "serving",
                                  ![p].published = Append(@, actual_port)]
    /\ server_ready_queue' = Append(server_ready_queue,
          [text |-> ReadyMessage(actual_port), sender |-> p])
    /\ UNCHANGED <<kolibri_server_process, kolibri_origin, server_monitor_timer,
                   pending_calls, shutdown_pc, nspawned, reports>>

\* The process ends, at any point of its life: sys.exit(0) after run()
\* returns or from the signal handler, sys.exit(1) on a fatal error, or
\* killed.
server_exit(p, code) ==
    /\ IsAlive(p)
    /\ UNCHANGED server
    /\ workers' = [workers EXCEPT ![p].st = "exited", ![p].exitcode = <<code>>]
    /\ UNCHANGED <<kolibri_server_process, server_ready_queue, kolibri_origin,
                   server_monitor_timer, pending_calls, shutdown_pc, nspawned,
                   reports>>

\* ------------------------------------------------------------------------
Next ==
    \/ start_server
    \/ check_server_status
    \/ check_server_status_queue_error
    \/ load_kolibri
    \/ shutdown
    \/ shutdown_after_terminate
    \/ shutdown_after_kill
    \/ shutdown_except
    \/ \E p \in Pids : server_main_startup(p)
    \/ \E p \in Pids, port \in Ports : on_serving_callback(p, port)
    \/ \E p \in Pids, code \in ExitCodes : server_exit(p, code)

Spec == Init /\ [][Next]_vars

\* The app from a start where the queue already holds one object that is no
\* readiness message.
InitMalformed ==
    /\ kolibri_server_process = NoProcess
    /\ \E m \in MalformedMessages :
          server_ready_queue = <<[text |-> m, sender |-> NoProcess]>>
    /\ kolibri_origin = None
    /\ server_monitor_timer = NoTimer
    /\ pending_calls = <<>>
    /\ shutdown_pc = "idle"
    /\ workers = [p \in Pids |-> NewWorker]
    /\ nspawned = 0
    /\ reports = <<>>
    /\ server = NoServer

SpecMalformed == InitMalformed /\ [][Next]_vars

\* The GUI thread does not stay blocked in a join: both joins have a timeout.
FairSpec ==
    /\ Spec
    /\ WF_vars(shutdown_after_terminate)
    /\ WF_vars(shutdown_after_kill)

\* The timer keeps firing while it runs and the event loop runs the posted
\* calls.
FairTickSpec ==
    /\ FairSpec
    /\ WF_vars(check_server_status)
    /\ WF_vars(load_kolibri)

\* ------------------------------------------------------------------------
\* main(ready_queue) of _server_process.py, one process followed step by step.
\*
\* server.pc is the step main() stands before: "boot" (the process has begun,
\* signal.signal not called yet), "imports", "plugins", "initialize",
\* "migrate", "ports", "construct", "subscribe", "run", then "running" while
\* blocked in kolibri_server.run(), and "exited".  http_port, zip_port and
\* serving_port are <<>> until they are known, then the one port.

\* Values of KOLIBRI_HTTP_PORT and KOLIBRI_ZIP_CONTENT_PORT in os.environ:
\* None when the variable is not set, else its string.
EnvValues ==
    { None,
      <<"0">>,
      <<"4", "1", "2", "3", "7">>,
      <<" ", "7">>,
      <<"a", "b", "c">>,
      <<>> }

ZipEnvValues == { None, <<"0">>, <<"8", "x">> }

\* Values of OPTIONS["Deployment"]["HTTP_PORT"] and ["ZIP_CONTENT_PORT"]
ConfiguredPorts == {0, 8080}

\* A port resolution that takes an override of 0 for no override
ResolvePort_zero_unset(env_value, configured) ==
    LET vs == IF env_value = None THEN {} ELSE ParseInt(env_value)
    IN IF vs = {} \/ vs = {0} THEN configured ELSE CHOOSE x \in vs : TRUE

\* int(os.environ.get(NAME, str(configured))), with configured on ValueError
ResolvePort(env_value, configured) ==
    LET port_str == IF env_value = None THEN FormatInt(configured) ELSE env_value
        vs == ParseInt(port_str)
    IN IF vs = {} THEN configured ELSE CHOOSE x \in vs : TRUE

KOLIBRI_SERVER_READY_PREFIX ==
    <<"K", "O", "L", "I", "B", "R", "I", "_", "S", "E", "R", "V", "E", "R", "_">>
    \o READY_PREFIX

\* A fallback line in the form of the queue message
FallbackLine_as_message(actual_port) == ReadyMessage(actual_port)

\* The line on_serving_callback prints when it was given no queue
FallbackLine(actual_port) == KOLIBRI_SERVER_READY_PREFIX \o FormatInt(actual_port)

\* A callback that never takes the queue for given
PutsOnQueue_never(ready_queue) == FALSE

\* if ready_queue: a Queue object is true, None is false
PutsOnQueue(ready_queue) == ready_queue

\* An except clause that catches SystemExit as well
CaughtByExcept_bare(exc) == TRUE

\* except Exception: sys.exit() raises SystemExit, which is no Exception
CaughtByExcept(exc) == exc = "Exception"

\* The status the process ends with when exc, raised inside main()'s try
\* block with the status its sys.exit call names (1 for an Exception),
\* reaches the outer except clause
StatusThroughTry(exc, status) == IF CaughtByExcept(exc) THEN 1 ELSE status

InitServer ==
    /\ kolibri_server_process = NoProcess
    /\ server_ready_queue = <<>>
    /\ kolibri_origin = None
    /\ server_monitor_timer = NoTimer
    /\ pending_calls = <<>>
    /\ shutdown_pc = "idle"
    /\ workers = [p \in Pids |-> NewWorker]
    /\ nspawned = 0
    /\ reports = <<>>
    /\ \E rq \in BOOLEAN, eh \in EnvValues, ez \in ZipEnvValues,
          oh \in ConfiguredPorts, oz \in ConfiguredPorts :
          server = [pc |-> "boot",
                    ready_queue |-> rq,
                    environ |-> [http |-> eh, zip |-> ez],
                    options |-> [http |-> oh, zip |-> oz],
                    http_port |-> <<>>,
                    zip_port |-> <<>>,
                    bus |-> "none",
                    serving_port |-> <<>>,
                    stop_calls |-> {},
                    put |-> <<>>,
                    stdout |-> <<>>,
                    exitcode |-> NoExitCode,
                    ended |-> "",
                    steps |-> <<>>]

\* The process ends with status: sys.exit(status), or the death a signal
\* brings
Exited(status, how) ==
    [server EXCEPT !.pc = "exited", !.exitcode = <<status>>, !.ended = how]

\* A startup failure that is logged and after which main() goes on to run()
FailedStartup_goes_on(status, how) ==
    [server EXCEPT !.pc = "run", !.bus = "subscribed", !.ended = how]

\* The sys.exit(status) of a failed enable_plugin, initialize() or migrate
FailedStartup(status, how) == Exited(StatusThroughTry("SystemExit", status), how)

\* One step of the startup sequence done, main() now before step next
Stepped(step, next) ==
    [server EXCEPT !.pc = next, !.steps = Append(server.steps, step)]

Signals == {"SIGTERM", "SIGINT"}

\* signal.signal(SIGTERM, signal_handler); signal.signal(SIGINT, signal_handler)
main_install_handlers ==
    /\ server.pc = "boot"
    /\ server' = Stepped("handlers", "imports")
    /\ UNCHANGED appvars

\* A signal before the handler is installed: SIGTERM kills the process,
\* SIGINT raises KeyboardInterrupt, which nothing catches (status 1 from
\* multiprocessing's bootstrap, death by SIGINT from the interpreter).
signal_before_handlers(sig, status) ==
    /\ server.pc = "boot"
    /\ status \in (IF sig = "SIGTERM" THEN {-15} ELSE {1, -2})
    /\ server' = Exited(status, "signal")
    /\ UNCHANGED appvars

\* The imports at the head of the try block
main_imports(ok) ==
    /\ server.pc = "imports"
    /\ server' = IF ok THEN Stepped("imports", "plugins")
                 ELSE Exited(StatusThroughTry("Exception", 1), "imports_failed")
    /\ UNCHANGED appvars

\* enable_plugin("kolibri.plugins.app"); enable_plugin("kolibri_app")
main_enable_plugins(ok) ==
    /\ server.pc = "plugins"
    /\ server' = IF ok THEN Stepped("plugins", "initialize")
                 ELSE FailedStartup(1, "plugins_failed")
    /\ UNCHANGED appvars

\* initialize(skip_update=False)
main_initialize(ok) ==
    /\ server.pc = "initialize"
    /\ server' = IF ok THEN Stepped("initialize", "migrate")
                 ELSE FailedStartup(1, "initialize_failed")
    /\ UNCHANGED appvars

\* connections['default'].close(); call_command("migrate", interactive=False)
main_migrate(ok) ==
    /\ server.pc = "migrate"
    /\ server' = IF ok THEN Stepped("migrate", "ports")
                 ELSE FailedStartup(1, "migrate_failed")
    /\ UNCHANGED appvars

\* http_port and zip_port from the environment or OPTIONS
main_resolve_ports ==
    /\ server.pc = "ports"
    /\ server' = [Stepped("ports", "construct") EXCEPT
                    !.http_port = <<ResolvePort(server.environ.http, server.options.http)>>,
                    !.zip_port = <<ResolvePort(server.environ.zip, server.options.zip)>>]
    /\ UNCHANGED appvars

\* kolibri_server = KolibriProcessBus(port=http_port, zip_port=zip_port)
main_construct(ok) ==
    /\ server.pc = "construct"
    /\ server' = IF ok THEN [Stepped("construct", "subscribe") EXCEPT !.bus = "built"]
                 ELSE Exited(StatusThroughTry("Exception", 1), "construct_failed")
    /\ UNCHANGED appvars

\* kolibri_server.subscribe("SERVING", on_serving_callback)
main_subscribe ==
    /\ server.pc = "subscribe"
    /\ server' = [Stepped("subscribe", "run") EXCEPT !.bus = "subscribed"]
    /\ UNCHANGED appvars

\* kolibri_server.run() is called and blocks
main_run ==
    /\ server.pc = "run"
    /\ server' = [Stepped("run", "running") EXCEPT !.bus = "running"]
    /\ UNCHANGED appvars

\* The bus publishes SERVING with the port it bound: on_serving_callback
bus_serving(actual_port) ==
    /\ server.pc = "running"
    /\ server.bus = "running"
    /\ server' = [Stepped("serving", "running") EXCEPT
                    !.bus = "serving",
                    !.serving_port = <<actual_port>>,
                    !.put = IF PutsOnQueue(server.ready_queue)
                            THEN Append(server.put, ReadyMessage(actual_port))
                            ELSE server.put,
                    !.stdout = IF PutsOnQueue(server.ready_queue)
                               THEN server.stdout
                               ELSE Append(server.stdout, FallbackLine(actual_port))]
    /\ UNCHANGED appvars

\* kolibri_server.run() returns, then sys.exit(0); or it raises
main_run_ends(raised) ==
    /\ server.pc = "running"
    /\ server' = IF raised THEN Exited(StatusThroughTry("Exception", 1), "run_raised")
                 ELSE Exited(StatusThroughTry("SystemExit", 0), "run_returned")
    /\ UNCHANGED appvars

\* A handler that may find a bus at any time
Locatable_always(bus) == TRUE

\* A KolibriProcessBus can be among the locals of a frame only once it is
\* constructed
Locatable(bus) == bus # "none"

\* signal_handler(sig, frame).  located: a KolibriProcessBus is among the
\* locals of the interrupted frame.
signal_handler(sig, located, stop_raises) ==
    /\ server.pc \notin {"boot", "exited"}
    /\ located => Locatable(server.bus)
    /\ stop_raises => located
    /\ server' =
          IF ~located THEN Exited(StatusThroughTry("SystemExit", 0), "handler_exit")
          ELSE IF stop_raises
          THEN [Exited(StatusThroughTry("SystemExit", 1), "stop_raised") EXCEPT
                   !.stop_calls = server.stop_calls \cup {sig}]
          ELSE [server EXCEPT !.stop_calls = server.stop_calls \cup {sig}]
    /\ UNCHANGED appvars

NextServer ==
    \/ main_install_handlers
    \/ \E sig \in Signals, status \in {-15, -2, 1} : signal_before_handlers(sig, status)
    \/ \E ok \in BOOLEAN : main_imports(ok)
    \/ \E ok \in BOOLEAN : main_enable_plugins(ok)
    \/ \E ok \in BOOLEAN : main_initialize(ok)
    \/ \E ok \in BOOLEAN : main_migrate(ok)
    \/ main_resolve_ports
    \/ \E ok \in BOOLEAN : main_construct(ok)
    \/ main_subscribe
    \/ main_run
    \/ \E actual_port \in Ports : bus_serving(actual_port)
    \/ \E raised \in BOOLEAN : main_run_ends(raised)
    \/ \E sig \in Signals, located \in BOOLEAN, stop_raises \in BOOLEAN :
          signal_handler(sig, located, stop_raises)

SpecServer == InitServer /\ [][NextServer]_vars

\* ------------------------------------------------------------------------
\* The specification's SupervisorState, read off the app's fields: the app
\* keeps no such field.  SHUTTING_DOWN while shutdown() runs; STARTING and
\* READY while the app holds a process, without and with a cached origin;
\* with no process held, NOT_STARTED before the first start_server, FAILED
\* when the last process was dropped by the tick that reported a startup
\* failure, TERMINATED otherwise.
SupervisorState ==
    IF shutdown_pc # "idle" THEN "SHUTTING_DOWN"
    ELSE IF kolibri_server_process # NoProcess
    THEN (IF kolibri_origin = None THEN "STARTING" ELSE "READY")
    ELSE IF nspawned = 0 THEN "NOT_STARTED"
    ELSE IF workers[nspawned].cleared = "failed" THEN "FAILED"
    ELSE "TERMINATED"

\* The origin-ready reports made while the app held process p
ReadyReports(p) ==
    {i \in DOMAIN reports :
        reports[i].kind = "origin_ready" /\ reports[i].pid = p}

\* The reports of a found-dead process
DeathReports ==
    {i \in DOMAIN reports :
        reports[i].kind \in {"startup_failed", "unexpected_exit"}}

\* ------------------------------------------------------------------------
\* C1: once start_server has run and the process the app holds has put its
\* readiness message with port P on the queue and stays alive, the app
\* reports the origin http://localhost:P exactly once: no report made for
\* this process carries another origin, no second report is made, the cached
\* origin is never another one, and once the queue and the posted calls are
\* empty the origin is cached and was reported.
C1_ReadyReportedOnce ==
    \A p \in Pids :
        (kolibri_server_process = p /\ IsAlive(p) /\ workers[p].published # <<>>)
        => LET P == workers[p].published[1] IN
           /\ Cardinality(ReadyReports(p)) <= 1
           /\ \A i \in ReadyReports(p) : reports[i].val = OriginOf(P)
           /\ kolibri_origin \in {None, OriginOf(P)}
           /\ (server_ready_queue = <<>> /\ pending_calls = <<>>
                  /\ shutdown_pc = "idle")
              => (kolibri_origin = OriginOf(P) /\ Cardinality(ReadyReports(p)) = 1)

\* Process p was held by the app while a queue message was read and found
\* valid, p being alive at that tick
ObservedAlive(p) ==
    \/ \E i \in DOMAIN reports :
          /\ reports[i].kind = "origin_ready"
          /\ reports[i].msg.drained_for = p
          /\ reports[i].msg.alive_at_drain
    \/ \E k \in DOMAIN pending_calls :
          /\ pending_calls[k].drained_for = p
          /\ pending_calls[k].alive_at_drain

\* C2: a process found dead before any readiness message was read while it
\* was alive is reported as a startup failure, with its own exit code, and
\* no origin is ever reported from a message read for it.
C2_StartupFailure ==
    \A i \in DeathReports :
        LET r == reports[i] IN
        ~ObservedAlive(r.pid)
        => /\ r.kind = "startup_failed"
           /\ r.val = workers[r.pid].exitcode
           /\ \A j \in DOMAIN reports :
                 reports[j].kind = "origin_ready"
                 => reports[j].msg.drained_for # r.pid

\* C3: the tick that finds the held process dead while an origin is cached
\* drops the process, clears the origin, stops the timer and logs the
\* unexpected exit, nothing else; and while a process is held with an origin
\* cached, the origin stays cached and no startup failure is reported.
C3_DeathAfterReady ==
    [][ (kolibri_server_process # NoProcess /\ kolibri_origin # None)
        => /\ (check_server_status /\ ~IsAlive(kolibri_server_process))
              => /\ kolibri_server_process' = NoProcess
                 /\ kolibri_origin' = None
                 /\ server_monitor_timer' = NoTimer
                 /\ SupervisorState' = "TERMINATED"
                 /\ reports' = Append(reports,
                       Report("unexpected_exit", kolibri_server_process,
                              workers[kolibri_server_process].exitcode, NoMsg))
           /\ (kolibri_server_process' = kolibri_server_process)
              => kolibri_origin' # None
           /\ (reports' # reports)
              => reports'[Len(reports')].kind # "startup_failed"
      ]_vars

\* C3's case: the last report is the unexpected exit of a process that had
\* published its port, and the app holds neither process nor origin.
C3_Witness ==
    /\ reports # <<>>
    /\ reports[Len(reports)].kind = "unexpected_exit"
    /\ workers[reports[Len(reports)].pid].published # <<>>
    /\ kolibri_server_process = NoProcess
    /\ kolibri_origin = None
    /\ server_monitor_timer = NoTimer

\* C4: a shutdown begun in STARTING or READY ends in TERMINATED whatever
\* the process does; kill() is called exactly when the process is still
\* alive as the first join returns, and never when it has exited by then
\* (a shutdown in which terminate(), kill() or a join raises ends in
\* TERMINATED as well, with no further signal).
C4_ShutdownTerminates ==
    /\ (shutdown_pc # "idle")
          ~> (shutdown_pc = "idle" /\ SupervisorState = "TERMINATED")
    /\ [][ /\ (shutdown /\ SupervisorState \in {"STARTING", "READY"})
              => SupervisorState' \in {"SHUTTING_DOWN", "TERMINATED"}
           /\ (shutdown_pc # "idle" /\ shutdown_pc' = "idle")
              => SupervisorState' = "TERMINATED"
           /\ shutdown_after_terminate
              => LET p == kolibri_server_process IN
                 IF IsAlive(p)
                 THEN workers'[p].kill_sent = 1 /\ shutdown_pc' = "join_kill"
                 ELSE workers'[p].kill_sent = 0 /\ shutdown_pc' = "idle"
         ]_vars

\* C4's case: a shutdown has ended with the process killed, another with the
\* process gone on terminate() alone.
C4_Witness ==
    /\ SupervisorState = "TERMINATED"
    /\ \E p \in Pids :
          /\ workers[p].cleared = "shutdown"
          /\ workers[p].term_sent = 1 /\ workers[p].kill_sent = 1
    /\ \E q \in Pids :
          /\ workers[q].cleared = "shutdown"
          /\ workers[q].term_sent = 1 /\ workers[q].kill_sent = 0

\* C5: shutdown with no process held (NOT_STARTED, FAILED, TERMINATED, so
\* also a second shutdown) changes nothing: no terminate(), no kill(), no
\* field of the app.
C5_ShutdownIdempotent ==
    [][ (shutdown /\ SupervisorState \in {"NOT_STARTED", "FAILED", "TERMINATED"})
        => UNCHANGED vars ]_vars

\* C5's case: a shutdown has run to its end (a second one may follow), and
\* one process ended as a startup failure.
C5_Witness ==
    /\ SupervisorState = "TERMINATED"
    /\ workers[nspawned].cleared = "shutdown"
    /\ workers[nspawned].term_sent = 1
    /\ \E p \in Pids : workers[p].cleared = "failed"

\* C6: between handlers, an origin is cached exactly when the state is READY.
C6_OriginIffReady ==
    shutdown_pc = "idle"
    => ((kolibri_origin # None) <=> (SupervisorState = "READY"))

\* C7: an origin is reported only from a readiness message read in a tick
\* that found the held process alive.
C7_ReadyOnlyWhileAlive ==
    \A i \in DOMAIN reports :
        reports[i].kind = "origin_ready" => reports[i].msg.alive_at_drain

\* C8: a readiness message is only ever read for the process that put it on
\* the queue: each start_server leaves the new process an empty queue.
C8_FreshChannel ==
    /\ \A k \in DOMAIN pending_calls :
          pending_calls[k].sender = pending_calls[k].drained_for
    /\ \A i \in DOMAIN reports :
          reports[i].kind = "origin_ready"
          => reports[i].msg.sender = reports[i].msg.drained_for

\* C9: a process started after the app had dropped the one before (FAILED
\* or TERMINATED) begins a new cycle: until it has published its port, no
\* origin is cached and the timer runs at the startup interval.
C9_NewCycle ==
    \A p \in Pids :
        (/\ p > 1
         /\ kolibri_server_process = p
         /\ IsAlive(p)
         /\ workers[p - 1].cleared \in {"failed", "exited", "shutdown"}
         /\ workers[p].published = <<>>
         /\ shutdown_pc = "idle")
        => /\ kolibri_origin = None
           /\ server_monitor_timer = SERVER_STARTUP_CHECK_INTERVAL

\* C10, as claimed: no two processes of the app are alive at once.
C10_OneWorkerAlive ==
    Cardinality({p \in Pids : IsAlive(p)}) <= 1

\* C10, amended: the app holds at most one process, every other live one is
\* a process that shutdown dropped while it was still alive (after kill()
\* and the second join, or after terminate(), kill() or a join raised), and
\* start_server with the held process alive changes nothing.
C10_OneWorkerHeld ==
    /\ [](\A p \in Pids :
            (IsAlive(p) /\ p # kolibri_server_process)
            => workers[p].cleared = "shutdown")
    /\ [][ (start_server /\ kolibri_server_process # NoProcess
               /\ IsAlive(kolibri_server_process))
           => UNCHANGED vars ]_vars

\* C10's case: the held process is alive and so is one that a shutdown
\* dropped alive.
C10_Witness ==
    /\ kolibri_server_process # NoProcess
    /\ IsAlive(kolibri_server_process)
    /\ \E p \in Pids : p # kolibri_server_process /\ IsAlive(p)

\* C11: readiness is consumed at most once per process.  At most one origin
\* is reported while the app holds a process; while an origin is cached no
\* call of load_kolibri is posted; and as long as the app keeps the process
\* and its cached origin, no step (whatever is on the queue) changes the
\* origin, reports an origin or posts a call.
C11_ReadinessConsumedOnce ==
    /\ [](\A p \in Pids : Cardinality(ReadyReports(p)) <= 1)
    /\ [](kolibri_origin # None => pending_calls = <<>>)
    /\ [][ (/\ kolibri_server_process # NoProcess
            /\ kolibri_server_process' = kolibri_server_process
            /\ kolibri_origin # None)
           => (/\ kolibri_origin' = kolibri_origin
               /\ pending_calls' = pending_calls
               /\ \A i \in DOMAIN reports' \ DOMAIN reports :
                     reports'[i].kind # "origin_ready") ]_vars

\* C11's case: the origin of the held, live process was reported, the timer
\* runs at the slow interval, and a further valid message with another port
\* waits on the queue through the ticks.
C11_Witness ==
    /\ kolibri_server_process # NoProcess
    /\ IsAlive(kolibri_server_process)
    /\ Cardinality(ReadyReports(kolibri_server_process)) = 1
    /\ kolibri_origin # None
    /\ server_monitor_timer = SERVER_RUNNING_CHECK_INTERVAL
    /\ \E k \in DOMAIN server_ready_queue :
          \E x \in ParsePort(server_ready_queue[k].text) :
              OriginOf(x) # kolibri_origin

\* The head of the queue is read by the next tick and is no readiness message
MalformedAtHead ==
    /\ DrainsQueue
    /\ server_ready_queue # <<>>
    /\ Head(server_ready_queue).text \in MalformedMessages

\* C12: a tick that reads an object that is no readiness message, the held
\* process being alive, only takes the object off the queue: process, origin,
\* timer, posted calls, reports and state stay as they were and the timer
\* keeps running.  A valid message read by a tick, the held process being
\* alive, posts its load_kolibri call and sets the slow interval, whatever
\* was read before.
C12_MalformedDiscarded ==
    /\ [][ (/\ check_server_status
            /\ MalformedAtHead
            /\ kolibri_server_process # NoProcess
            /\ IsAlive(kolibri_server_process))
           => (/\ server_ready_queue' = Tail(server_ready_queue)
               /\ UNCHANGED <<kolibri_server_process, kolibri_origin,
                              server_monitor_timer, pending_calls, reports,
                              workers, shutdown_pc, nspawned>>
               /\ server_monitor_timer' # NoTimer
               /\ SupervisorState' = SupervisorState) ]_vars
    /\ [][ (/\ check_server_status
            /\ DrainsQueue
            /\ server_ready_queue # <<>>
            /\ Head(server_ready_queue).text \notin MalformedMessages
            /\ kolibri_server_process # NoProcess
            /\ IsAlive(kolibri_server_process))
           => (/\ Len(pending_calls') = 1
               /\ Head(server_ready_queue).text = ReadyMessage(pending_calls'[1].port)
               /\ server_monitor_timer' = SERVER_RUNNING_CHECK_INTERVAL) ]_vars

\* C12's case: the object that was no readiness message has been read and
\* dropped without a report, and the readiness message the held, live process
\* put afterwards was read for it and its origin cached and reported.
C12_Witness ==
    /\ \A k \in DOMAIN server_ready_queue :
          server_ready_queue[k].sender # NoProcess
    /\ Len(reports) = 1
    /\ reports[1].kind = "origin_ready"
    /\ reports[1].pid = kolibri_server_process
    /\ reports[1].msg.sender = kolibri_server_process
    /\ reports[1].msg.alive_at_drain
    /\ kolibri_origin = reports[1].val
    /\ kolibri_server_process # NoProcess
    /\ IsAlive(kolibri_server_process)
    /\ server_monitor_timer = SERVER_RUNNING_CHECK_INTERVAL

\* A tick reported process p dead
DeathReported(p) ==
    \E i \in DeathReports : reports[i].pid = p

\* C13: a process the app holds that has died, no shutdown being in
\* progress, is eventually reported dead by a tick, whatever start_server
\* calls and ticks come in between (a process that a later shutdown dropped
\* is left aside).
C13_DeathDetected ==
    \A p \in Pids :
        (/\ kolibri_server_process = p
         /\ workers[p].st = "exited"
         /\ shutdown_pc = "idle")
        ~> (DeathReported(p) \/ workers[p].cleared = "shutdown")

\* This step is a start_server whose Process.start() raised
SpawnFailed ==
    /\ start_server
    /\ Len(reports') = Len(reports) + 1
    /\ reports'[Len(reports')].kind = "start_error"

\* C14: a start_server whose spawn fails leaves the app as it was before
\* the call: the same process reference (none on the first call), the same
\* state, origin, queue and posted calls, and the timer not started.
C14_SpawnFailure ==
    [][ SpawnFailed
        => (/\ UNCHANGED <<kolibri_server_process, kolibri_origin,
                           server_ready_queue, pending_calls,
                           server_monitor_timer>>
            /\ SupervisorState' = SupervisorState) ]_vars

\* ------------------------------------------------------------------------
\* The server process, followed through main()

\* main() ended because a step of its try block failed
FailedSteps ==
    {"imports_failed", "plugins_failed", "initialize_failed", "migrate_failed",
     "construct_failed", "run_raised"}

\* C15: the process ends with status 0 when kolibri_server.run() returned
\* (a clean stop, after a graceful stop or not, before or after SERVING), and
\* with a status other than 0 when the imports, the plugins, initialize(),
\* the migrations, the bus construction or run() failed.
C15_ExitStatus ==
    server.pc = "exited"
    => /\ server.ended = "run_returned" => server.exitcode = <<0>>
       /\ server.ended \in FailedSteps
          => (server.exitcode # <<0>> /\ server.exitcode # NoExitCode)

\* C15's case: the server served, a signal handler called stop(), run()
\* returned and the process ended.
C15_Witness ==
    /\ server.pc = "exited"
    /\ server.ended = "run_returned"
    /\ server.serving_port # <<>>
    /\ server.stop_calls # {}

\* The decimal text of the ports the bus binds in the model
PortText(port) ==
    CASE port = 8080 -> <<"8", "0", "8", "0">>
      [] port = 41237 -> <<"4", "1", "2", "3", "7">>

\* s ends with suffix, after at least one other character
EndsWith(s, suffix) ==
    /\ Len(s) > Len(suffix)
    /\ SubSeq(s, Len(s) - Len(suffix) + 1, Len(s)) = suffix

\* C16: nothing is put or printed before SERVING.  Once the bus has published
\* SERVING with port A: with a queue, exactly one message was put, it carries
\* A and nothing was printed; without a queue, nothing was put and one line
\* carrying A was printed.  The port the app reads from the message put is A
\* and the origin it builds from it is http://localhost:A, also when port 0
\* was requested.
C16_ReadinessSignal ==
    server.pc # "none"
    => /\ server.serving_port = <<>> => (server.put = <<>> /\ server.stdout = <<>>)
       /\ \A A \in Ports :
          /\ (server.serving_port = <<A>> /\ server.ready_queue)
             => /\ Len(server.put) = 1
                /\ server.put[1] = READY_PREFIX \o PortText(A)
                /\ server.stdout = <<>>
                /\ ParsePort(server.put[1]) = {A}
                /\ \A x \in ParsePort(server.put[1]) :
                      OriginOf(x) = HTTP_LOCALHOST \o PortText(A)
          /\ (server.serving_port = <<A>> /\ ~server.ready_queue)
             => /\ server.put = <<>>
                /\ Len(server.stdout) = 1
                /\ EndsWith(server.stdout[1], <<":">> \o PortText(A))

\* C16's case: port 0 was requested, the bus bound 41237 and the callback
\* put its message on the queue it was given.
C16_Witness ==
    /\ server.pc = "running"
    /\ server.ready_queue
    /\ server.http_port = <<0>>
    /\ server.serving_port = <<41237>>
    /\ Len(server.put) = 1

\* The integer an override of the model denotes, none for the others
OverrideValue(env_value) ==
    CASE env_value = <<"0">> -> {0}
      [] env_value = <<"4", "1", "2", "3", "7">> -> {41237}
      [] env_value = <<" ", "7">> -> {7}
      [] OTHER -> {}

\* C17: each resolved port is the integer its override denotes when the
\* override is set and denotes one (0 included), and the configured port
\* when the override is not set or denotes no integer.
C17_PortResolution ==
    (server.pc # "none" /\ server.http_port # <<>>)
    => /\ Len(server.http_port) = 1
       /\ server.http_port[1] \in
             (IF OverrideValue(server.environ.http) = {}
              THEN {server.options.http}
              ELSE OverrideValue(server.environ.http))
       /\ Len(server.zip_port) = 1
       /\ server.zip_port[1] \in
             (IF OverrideValue(server.environ.zip) = {}
              THEN {server.options.zip}
              ELSE OverrideValue(server.environ.zip))

\* C17's case: KOLIBRI_HTTP_PORT is "0" with 8080 configured and the zip
\* override is no integer: the ports are 0 and the configured zip port.
C17_Witness ==
    /\ server.pc = "construct"
    /\ server.environ.http = <<"0">>
    /\ server.options.http = 8080
    /\ server.http_port = <<0>>
    /\ server.environ.zip = <<"8", "x">>
    /\ server.options.zip = 8080
    /\ server.zip_port = <<8080>>

\* This step is a run of the signal handler
HandlerRuns ==
    \E sig \in Signals, located \in BOOLEAN, stop_raises \in BOOLEAN :
        signal_handler(sig, located, stop_raises)

\* C18: the handler of SIGTERM and SIGINT, whenever it runs after it was
\* installed: when it locates the bus it calls stop() and returns, the
\* process staying where it was until run() returns; when it does not locate
\* it, which is always so before the bus is constructed, the process ends at
\* once with status 0; when stop() raises, the process ends with a status
\* other than 0.
C18_SignalHandler ==
    /\ [](server.pc # "none" /\ server.bus = "none" => server.stop_calls = {})
    /\ [][ \A sig \in Signals :
            /\ signal_handler(sig, FALSE, FALSE)
               => (/\ server'.pc = "exited"
                   /\ server'.exitcode = <<0>>
                   /\ server'.stop_calls = server.stop_calls)
            /\ signal_handler(sig, TRUE, FALSE)
               => (/\ sig \in server'.stop_calls
                   /\ server'.pc = server.pc
                   /\ server'.exitcode = NoExitCode)
            /\ signal_handler(sig, TRUE, TRUE)
               => (/\ sig \in server'.stop_calls
                   /\ server'.pc = "exited"
                   /\ server'.exitcode \notin {<<0>>, NoExitCode}) ]_vars
    /\ [][ (HandlerRuns /\ server.bus = "none")
           => (server'.pc = "exited" /\ server'.exitcode = <<0>>) ]_vars

\* C18's case: a signal came while initialize() had returned and the bus was
\* not constructed yet, and the handler ended the process with status 0.
C18_Witness ==
    /\ server.pc = "exited"
    /\ server.ended = "handler_exit"
    /\ server.bus = "none"
    /\ server.steps = <<"handlers", "imports", "plugins", "initialize">>
    /\ server.exitcode = <<0>>

\* C19, as claimed: with no queue, the line printed for port A is READY:A.
C19_FallbackLineReady ==
    \A A \in Ports :
        (server.pc # "none" /\ ~server.ready_queue /\ server.serving_port = <<A>>)
        => server.stdout = <<READY_PREFIX \o PortText(A)>>

\* C19, amended: with no queue, the line printed for port A is
\* KOLIBRI_SERVER_READY:A, and it is the only line.
C19_FallbackLineKolibri ==
    \A A \in Ports :
        (server.pc # "none" /\ ~server.ready_queue /\ server.serving_port = <<A>>)
        => server.stdout =
              << <<"K", "O", "L", "I", "B", "R", "I", "_",
                   "S", "E", "R", "V", "E", "R", "_",
                   "R", "E", "A", "D", "Y", ":">> \o PortText(A) >>

\* C19's case: a server started without a queue serves on 8080.
C19_Witness ==
    /\ server.pc = "running"
    /\ ~server.ready_queue
    /\ server.serving_port = <<8080>>
    /\ Len(server.stdout) = 1

\* C20: between handlers, with no posted call waiting, a running timer has
\* the startup interval exactly when the state is STARTING and the running
\* interval exactly when it is READY.
C20_TimerInterval ==
    (/\ shutdown_pc = "idle"
     /\ pending_calls = <<>>
     /\ server_monitor_timer # NoTimer)
    => /\ (server_monitor_timer = SERVER_STARTUP_CHECK_INTERVAL)
          <=> (SupervisorState = "STARTING")
       /\ (server_monitor_timer = SERVER_RUNNING_CHECK_INTERVAL)
          <=> (SupervisorState = "READY")

\* ------------------------------------------------------------------------
\* C21: a tick does two things in a fixed order.  First, and only when no
\* origin is cached, it takes at most one message off the queue: the head
\* when get() returns, none when the queue is empty, get() raises or an
\* origin is cached.  Second, it checks the process it holds, whatever the
\* first step found: a dead process is reported and dropped in this very
\* tick, a live one is kept and nothing is reported.
C21_CheckedProcess ==
    LET p == kolibri_server_process IN
    /\ (p # NoProcess /\ workers[p].st \in {"unstarted", "exited"})
       => /\ kolibri_server_process' = NoProcess
          /\ Len(reports') = Len(reports) + 1
          /\ reports'[Len(reports')].pid = p
          /\ reports'[Len(reports')].kind \in {"startup_failed", "unexpected_exit"}
    /\ (p # NoProcess /\ workers[p].st \in {"startup", "running", "serving"})
       => /\ kolibri_server_process' = p
          /\ reports' = reports

C21_TickOrder ==
    [][ /\ check_server_status
           => /\ server_ready_queue' =
                    IF kolibri_origin = None /\ server_ready_queue # <<>>
                    THEN Tail(server_ready_queue) ELSE server_ready_queue
              /\ C21_CheckedProcess
        /\ check_server_status_queue_error
           => /\ server_ready_queue' = server_ready_queue
              /\ pending_calls' = pending_calls
              /\ C21_CheckedProcess ]_vars

\* The first process died and was reported by a tick whose get() raised: the
\* object the queue started with is still at its head.
C21_Witness ==
    /\ nspawned = 1
    /\ kolibri_origin = None
    /\ server_ready_queue # <<>>
    /\ Head(server_ready_queue).sender = NoProcess
    /\ \E i \in 1..Len(reports) :
          reports[i].kind = "startup_failed" /\ reports[i].pid = 1
    /\ kolibri_server_process = NoProcess

\* ------------------------------------------------------------------------
\* C22: a tick that finds the queue empty and the process it holds alive
\* changes nothing: not the process, the queue, the origin, the timer and
\* its interval, no call is posted and nothing is reported.
C22_IdleTick ==
    [][ (/\ check_server_status
         /\ server_ready_queue = <<>>
         /\ kolibri_server_process # NoProcess
         /\ workers[kolibri_server_process].st \in {"startup", "running", "serving"})
        => UNCHANGED vars ]_vars

\* A tick is due with the queue empty and a serving process held, its origin
\* cached and the timer at the running interval.
C22_Witness ==
    /\ shutdown_pc = "idle"
    /\ pending_calls = <<>>
    /\ server_monitor_timer = SERVER_RUNNING_CHECK_INTERVAL
    /\ server_ready_queue = <<>>
    /\ kolibri_server_process # NoProcess
    /\ workers[kolibri_server_process].st = "serving"
    /\ kolibri_origin # None

\* ------------------------------------------------------------------------
\* C23: shutdown stops the timer before it signals the process, and the
\* timer stays stopped until the next start_server: every step of shutdown
\* that begins it leaves no timer, no terminate() or kill() is ever sent
\* with a timer running, no timer runs while shutdown waits in a join, and
\* only a start_server that spawns a process sets a timer again.
C23_SignalSent ==
    \E p \in Pids : \/ workers'[p].term_sent # workers[p].term_sent
                    \/ workers'[p].kill_sent # workers[p].kill_sent

C23_TimerStoppedFirst ==
    [][ /\ (shutdown \/ shutdown_except) => server_monitor_timer' = NoTimer
        /\ C23_SignalSent => server_monitor_timer' = NoTimer
        /\ shutdown_pc' # "idle" => server_monitor_timer' = NoTimer
        /\ (server_monitor_timer = NoTimer /\ server_monitor_timer' # NoTimer)
           => (start_server /\ nspawned' = nspawned + 1) ]_vars

\* shutdown has stopped a running timer and sent terminate() to a serving
\* process; it is in its first join.
C23_Witness ==
    /\ shutdown_pc = "join_terminate"
    /\ server_monitor_timer = NoTimer
    /\ workers[kolibri_server_process].st = "serving"
    /\ workers[kolibri_server_process].term_sent = 1
    /\ kolibri_origin # None

\* ------------------------------------------------------------------------
\* C24: the signals of a shutdown come in order and once each.  terminate()
\* is sent first, once, to the live process held, by shutdown alone; kill()
\* is sent once, after terminate(), as the first join returns, exactly when
\* the process is still alive then and never when it exited during the
\* join; no other step sends either (a join, is_alive() or kill() that
\* raises ends the shutdown with no further signal).
C24_Escalation ==
    [][ /\ \A p \in Pids :
              /\ workers'[p].term_sent # workers[p].term_sent
                 => /\ shutdown
                    /\ p = kolibri_server_process
                    /\ workers[p].st \in {"startup", "running", "serving"}
                    /\ workers[p].term_sent = 0 /\ workers'[p].term_sent = 1
                    /\ workers[p].kill_sent = 0 /\ workers'[p].kill_sent = 0
              /\ workers'[p].kill_sent # workers[p].kill_sent
                 => /\ shutdown_after_terminate
                    /\ p = kolibri_server_process
                    /\ workers[p].st \in {"startup", "running", "serving"}
                    /\ workers[p].term_sent = 1 /\ workers'[p].term_sent = 1
                    /\ workers[p].kill_sent = 0 /\ workers'[p].kill_sent = 1
              /\ workers'[p].kill_sent <= workers'[p].term_sent
              /\ workers'[p].term_sent <= 1
        /\ shutdown_after_terminate
           => LET p == kolibri_server_process IN
              (workers'[p].kill_sent = workers[p].kill_sent + 1)
                 <=> (workers[p].st \in {"startup", "running", "serving"}) ]_vars

\* One process got terminate() alone in its shutdown and has exited; the
\* next one outlived the first join, got kill() and is in the second join.
C24_Witness ==
    /\ shutdown_pc = "join_kill"
    /\ workers[kolibri_server_process].term_sent = 1
    /\ workers[kolibri_server_process].kill_sent = 1
    /\ \E q \in Pids :
          /\ workers[q].cleared = "shutdown"
          /\ workers[q].st = "exited"
          /\ workers[q].term_sent = 1 /\ workers[q].kill_sent = 0

\* ------------------------------------------------------------------------
\* C25: shutdown always returns, and it returns holding no process whatever
\* happened: the process exited on terminate(), exited on kill(), is still
\* alive after the second join, or one of the calls raised.
C25_ShutdownReturns ==
    /\ (shutdown_pc # "idle")
          ~> (shutdown_pc = "idle" /\ kolibri_server_process = NoProcess)
    /\ [][ /\ (shutdown /\ shutdown_pc' = "idle")
              => kolibri_server_process' = NoProcess
           /\ (shutdown_pc # "idle" /\ shutdown_pc' = "idle")
              => kolibri_server_process' = NoProcess
           /\ shutdown_except
              => (shutdown_pc' = "idle" /\ kolibri_server_process' = NoProcess)
           /\ (shutdown \/ shutdown_after_terminate)
              => \/ shutdown_pc' # "idle"
                 \/ kolibri_server_process' = NoProcess ]_vars

\* Two shutdowns have returned with no process held: one after kill() with
\* the process still alive, one in which terminate() raised and the process
\* was never signalled.
C25_Witness ==
    /\ shutdown_pc = "idle"
    /\ kolibri_server_process = NoProcess
    /\ \E p \in Pids :
          /\ workers[p].cleared = "shutdown"
          /\ workers[p].kill_sent = 1
          /\ workers[p].st \in {"startup", "running", "serving"}
    /\ \E q \in Pids :
          /\ workers[q].cleared = "shutdown"
          /\ workers[q].term_sent = 0
          /\ workers[q].st \in {"startup", "running", "serving"}

\* ------------------------------------------------------------------------
\* C26: main() starts up in a fixed order: the plugins are enabled before
\* initialize(), initialize() before the migrations, the migrations before
\* the bus is built and run.  A readiness message is put or printed only
\* after the bus published SERVING, once at most in the life of the process,
\* and a process whose plugins, initialize() or migrations failed ends
\* without one.
C26_Before(a, b) ==
    \A j \in 1..Len(server.steps) :
       server.steps[j] = b => \E i \in 1..(j - 1) : server.steps[i] = a

C27_DeathReportedOnce ==
    [][ /\ (/\ reports' # reports
             /\ reports'[Len(reports')].kind \in {"startup_failed", "unexpected_exit"})
           => LET new == reports'[Len(reports')] IN
              /\ check_server_status \/ check_server_status_queue_error
              /\ server_monitor_timer # NoTimer
              /\ reports' = Append(reports, new)
              /\ new.pid # NoProcess
              /\ new.pid = kolibri_server_process
              /\ \A i \in 1..Len(reports) :
                    reports[i].pid = new.pid
                    => reports[i].kind \notin {"startup_failed", "unexpected_exit"}
              /\ new.kind = (IF kolibri_origin = None THEN "startup_failed"
                             ELSE "unexpected_exit")
              /\ server_monitor_timer' = NoTimer
              /\ kolibri_server_process' = NoProcess
        /\ (server_monitor_timer = NoTimer /\ reports' # reports)
           => reports'[Len(reports')].kind \in {"origin_ready", "start_error"}
        /\ (server_monitor_timer = NoTimer /\ server_monitor_timer' # NoTimer)
           => start_server ]_vars

\* Two processes have died and each was reported once, one as a startup
\* failure and one as an unexpected exit; no timer runs.
C27_Witness ==
    /\ server_monitor_timer = NoTimer
    /\ kolibri_server_process = NoProcess
    /\ Len(reports) >= 2
    /\ \E i, j \in 1..Len(reports) :
          /\ reports[i].kind = "startup_failed"
          /\ reports[j].kind = "unexpected_exit"
          /\ reports[i].pid # reports[j].pid
    /\ \A p \in Pids :
          Cardinality({i \in DeathReports : reports[i].pid = p}) = 1

\* ------------------------------------------------------------------------
\* C28: a process that shutdown stops is never reported dead, from the
\* moment shutdown begins, and no origin is reported for it once shutdown
\* has returned, not even from a message read for it before shutdown whose
\* load_kolibri call was still posted.
C28_StoppedByShutdown(p) ==
    \/ workers[p].cleared = "shutdown"
    \/ (shutdown_pc # "idle" /\ kolibri_server_process = p)

C28_NoCrashReport ==
    \A p \in Pids :
       C28_StoppedByShutdown(p)
       => \A i \in 1..Len(reports) :
             reports[i].pid = p
             => reports[i].kind \notin {"startup_failed", "unexpected_exit"}

C28_NoReportAfterShutdown ==
    [][ /\ C28_NoCrashReport /\ C28_NoCrashReport'
        /\ \A p \in Pids :
              (/\ workers[p].cleared = "shutdown"
               /\ reports' # reports
               /\ reports'[Len(reports')].kind = "origin_ready")
              => reports'[Len(reports')].msg.drained_for # p ]_vars

\* ------------------------------------------------------------------------
\* C29: whenever a timer runs the app holds a process, so no tick ever
\* finds the process absent; a tick that did would stop the timer and
\* change nothing else.
C29_TimerHasProcess ==
    server_monitor_timer # NoTimer => kolibri_server_process # NoProcess

====
